---- MODULE Spec2Model ----
(***************************************************************************)
(* Capacity-constrained biomass overflow redistribution (CA expansion) of  *)
(* CompLaB3D: pushExcessBiomass3D / halfPushExcessBiomass3D /              *)
(* pullExcessBiomass3D, updateLocalMaskNtotalLattices3D,                   *)
(* updateAgeDistance3D and the push-pull loop of main().                   *)
(*                                                                         *)
(* Lattice densities (type T = double) are modelled as exact rationals     *)
(* <<numerator, denominator>>.  A cell is the tuple <<x, y, z>> of its     *)
(* absolute coordinates.  A block is the bulk domain of one worker.        *)
(***************************************************************************)
EXTENDS Integers, Sequences, FiniteSets, TLC

(* ------------------------------------------------------------------ *)
(* Bounds of the model                                                 *)
(* ------------------------------------------------------------------ *)
nx == 4
ny == 4
nz == 2
numbM == 2
MaxSweeps == 2
MaxAgePasses == 3

(* ------------------------------------------------------------------ *)
(* Arithmetic on T                                                     *)
(* ------------------------------------------------------------------ *)
Abs(n) == IF n < 0 THEN -n ELSE n

RECURSIVE GCD(_, _)
GCD(a, b) == IF b = 0 THEN a ELSE GCD(b, a % b)

Norm(n, d) ==
    LET g == GCD(Abs(n), Abs(d))
        s == IF d < 0 THEN -1 ELSE 1
    IN  <<(s * n) \div g, (s * d) \div g>>

R(n) == <<n, 1>>
Zero == <<0, 1>>
\* The element of a one-element set.
Only(S) == CHOOSE x \in S : TRUE

RInv(a) == IF a[1] < 0 THEN <<-a[2], -a[1]>> ELSE <<a[2], a[1]>>
RAdd(a, b) ==
    LET g == GCD(a[2], b[2])
    IN  Norm(a[1] * (b[2] \div g) + b[1] * (a[2] \div g), (a[2] \div g) * b[2])
RSub(a, b) == RAdd(a, <<-b[1], b[2]>>)
RMul(a, b) ==
    LET g1 == GCD(Abs(a[1]), b[2])
        g2 == GCD(Abs(b[1]), a[2])
    IN  <<(a[1] \div g1) * (b[1] \div g2), (a[2] \div g2) * (b[2] \div g1)>>
RDiv(a, b) == RMul(a, RInv(b))
RLt(a, b) ==
    LET g == GCD(a[2], b[2])
    IN  a[1] * (b[2] \div g) < b[1] * (a[2] \div g)
RGt(a, b) == RLt(b, a)
RLe(a, b) == ~RLt(b, a)
RGe(a, b) == ~RLt(a, b)
RAbs(a) == <<Abs(a[1]), a[2]>>

(* ------------------------------------------------------------------ *)
(* Configuration                                                       *)
(* ------------------------------------------------------------------ *)
\* thrd = 1e-12, scaled to a binary fraction far below every load used.
thrd == <<1, 64>>
\* COMPLAB_THRD = 1e-14, a hundredth of thrd.
COMPLAB_THRD == <<1, 6400>>
bdryGap == 1
solid == 0                   \* no_dynamics
bb == 1                      \* bounce_back
pore == <<2>>                \* pore_dynamics
bio == [iM \in 1..numbM |-> <<2 + iM>>]   \* bio_dynamics
Bmax == R(2)                 \* max_bMassRho
thrd_bFilmFrac == <<1, 2>>
thrdbMassRho == RMul(thrd_bFilmFrac, Bmax)
SweepCap == 2000
AgeCap == 1000

Species == 1..numbM

(* ------------------------------------------------------------------ *)
(* Grid, blocks, neighbours                                            *)
(* ------------------------------------------------------------------ *)
Cells == (0..(nx-1)) \X (0..(ny-1)) \X (0..(nz-1))

Add(c, d) == <<c[1] + d[1], c[2] + d[2], c[3] + d[3]>>

InBlock(c, B) ==
    /\ B.x0 <= c[1] /\ c[1] <= B.x1
    /\ B.y0 <= c[2] /\ c[2] <= B.y1
    /\ B.z0 <= c[3] /\ c[3] <= B.z1

Box(x0, x1, y0, y1, z0, z1) ==
    [x0 |-> x0, x1 |-> x1, y0 |-> y0, y1 |-> y1, z0 |-> z0, z1 |-> z1]

\* Block structures of the multi-block lattices: one block, two blocks
\* along x, two blocks along y, and 2 x 2 blocks along x and y.
xCut == nx \div 2
yCut == 1
Decomps ==
    [ single  |-> << Box(0, nx-1, 0, ny-1, 0, nz-1) >>,
      splitX  |-> << Box(0, xCut-1, 0, ny-1, 0, nz-1),
                     Box(xCut, nx-1, 0, ny-1, 0, nz-1) >>,
      splitY  |-> << Box(0, nx-1, 0, yCut-1, 0, nz-1),
                     Box(0, nx-1, yCut, ny-1, 0, nz-1) >>,
      splitXY |-> << Box(0, xCut-1, 0, yCut-1, 0, nz-1),
                     Box(0, xCut-1, yCut, ny-1, 0, nz-1),
                     Box(xCut, nx-1, 0, yCut-1, 0, nz-1),
                     Box(xCut, nx-1, yCut, ny-1, 0, nz-1) >> ]

\* Cells of a block in the order of the iX0 / iY0 / iZ0 loops.
BlockCells(B) ==
    LET lx == B.x1 - B.x0 + 1
        ly == B.y1 - B.y0 + 1
        lz == B.z1 - B.z0 + 1
    IN  [i \in 1..(lx * ly * lz) |->
            << B.x0 + ((i - 1) \div (ly * lz)),
               B.y0 + (((i - 1) \div lz) % ly),
               B.z0 + ((i - 1) % lz) >>]

IsPore(m) == \E iP \in 1..Len(pore) : m = pore[iP]

\* delXYZ with the outer-boundary exclusions of the push processors.
PushDirs(c) ==
    LET atXmin == c[1] = bdryGap
        atXmax == c[1] = nx - 1 - bdryGap
        atYmin == c[2] = 0
        atYmax == c[2] = ny - 1
        atZmin == c[3] = 0
        atZmax == c[3] = nz - 1
    IN  (IF ~atXmax THEN << <<1, 0, 0>> >> ELSE << >>) \o
        (IF ~atXmin THEN << <<-1, 0, 0>> >> ELSE << >>) \o
        (IF ~atYmax THEN << <<0, 1, 0>> >> ELSE << >>) \o
        (IF ~atYmin THEN << <<0, -1, 0>> >> ELSE << >>) \o
        (IF ~atZmax THEN << <<0, 0, 1>> >> ELSE << >>) \o
        (IF ~atZmin THEN << <<0, 0, -1>> >> ELSE << >>)

\* delXYZ of the aggregator and of the age pass (gap 0).
GridDirs(c) ==
    (IF c[1] # nx - 1 THEN << <<1, 0, 0>> >> ELSE << >>) \o
    (IF c[1] # 0 THEN << <<-1, 0, 0>> >> ELSE << >>) \o
    (IF c[2] # ny - 1 THEN << <<0, 1, 0>> >> ELSE << >>) \o
    (IF c[2] # 0 THEN << <<0, -1, 0>> >> ELSE << >>) \o
    (IF c[3] # nz - 1 THEN << <<0, 0, 1>> >> ELSE << >>) \o
    (IF c[3] # 0 THEN << <<0, 0, -1>> >> ELSE << >>)

\* bdry_dir: the one sub-domain face the cell is taken to lie on.
BdryDir(c, B) ==
    IF c[1] >= bdryGap /\ c[1] <= nx - 1 - bdryGap
    THEN IF c[1] = B.x1 THEN 1
         ELSE IF c[1] = B.x0 THEN 2
         ELSE IF c[2] = B.y1 THEN 3
         ELSE IF c[2] = B.y0 THEN 4
         ELSE IF c[3] = B.z1 THEN 5
         ELSE IF c[3] = B.z0 THEN 6
         ELSE 0
    ELSE 0

\* push_dir: the staging direction for the chosen neighbour.
PushDir(bdry_dir, d) ==
    IF bdry_dir > 0
    THEN IF d[1] = 1 /\ bdry_dir = 1 THEN 1
         ELSE IF d[1] = -1 /\ bdry_dir = 2 THEN 2
         ELSE IF d[2] = 1 /\ bdry_dir = 3 THEN 3
         ELSE IF d[2] = -1 /\ bdry_dir = 4 THEN 4
         ELSE IF d[3] = 1 /\ bdry_dir = 5 THEN 5
         ELSE IF d[3] = -1 /\ bdry_dir = 6 THEN 6
         ELSE 0
    ELSE 0

(* ------------------------------------------------------------------ *)
(* pushExcessBiomass3D / halfPushExcessBiomass3D: one cell             *)
(*                                                                     *)
(* L is the record of the lattices seen by the processor:              *)
(*   L.bio[c][iM]   lattices[iM]        biomass of species iM          *)
(*   L.cAmt[c][iM]  lattices[iM+numbM]  density of the copy lattice    *)
(*   L.cDir[c][iM]  lattices[iM+numbM]  omega of the copy lattice      *)
(*   L.total[c]     lattices[len-3]     total biomass lattice          *)
(*   L.mask[c]      lattices[len-2]     mask lattice                   *)
(*   L.age[c]       lattices[len-1]     age lattice (ptr_ca_lattices)  *)
(*   L.env[c][iM]   what workers have added to their envelope copy of  *)
(*                  a cell that lies outside their own block           *)
(* ------------------------------------------------------------------ *)

\* The neighbour filter with the wall test left out.
NbrsLocMaskKeepWall(L, c) ==
    LET Keep(d) == L.mask[Add(c, d)] # solid
        ds == SelectSeq(PushDirs(c), Keep)
    IN  [i \in 1..Len(ds) |-> [d |-> ds[i], m |-> L.mask[Add(c, ds[i])]]]

\* The neighbour filter with pore neighbours excluded as well.
NbrsLocMaskNoPore(L, c) ==
    LET Keep(d) == /\ L.mask[Add(c, d)] # bb /\ L.mask[Add(c, d)] # solid
                   /\ ~IsPore(L.mask[Add(c, d)])
        ds == SelectSeq(PushDirs(c), Keep)
    IN  [i \in 1..Len(ds) |-> [d |-> ds[i], m |-> L.mask[Add(c, ds[i])]]]

\* nbrsLocMask: the candidate neighbours, wall and solid excluded.
NbrsLocMask(L, c) ==
    LET Keep(d) == L.mask[Add(c, d)] # bb /\ L.mask[Add(c, d)] # solid
        ds == SelectSeq(PushDirs(c), Keep)
    IN  [i \in 1..Len(ds) |-> [d |-> ds[i], m |-> L.mask[Add(c, ds[i])]]]

\* The outcomes of std::random_shuffle on randArray (1-based).
RECURSIVE Perms(_)
Perms(S) ==
    IF S = {} THEN {<< >>}
    ELSE UNION {{<<x>> \o p : p \in Perms(S \ {x})} : x \in S}

Shuffles(n) == IF n > 1 THEN Perms(1..n) ELSE {[i \in 1..n |-> 1]}

\* The values of std::rand() modulo the neighbour counts up to n: every
\* residue modulo a count m <= n is the residue of some r in 0..n-1.
RandVals(n) == 0..(IF n > 1 THEN n - 1 ELSE 0)

\* Source test of pushExcessBiomass3D.
IsSourceFull(L, c) ==
    /\ L.mask[c] # bb /\ L.mask[c] # solid
    /\ RGt(L.total[c], Bmax)
    /\ RGt(RSub(L.total[c], Bmax), thrd)

\* Source test of halfPushExcessBiomass3D.
IsSourceHalf(L, c) ==
    /\ ~(L.mask[c] = bb \/ L.mask[c] = solid \/ IsPore(L.mask[c]))
    /\ RGt(L.total[c], Bmax)

IsSource(L, c, half) == IF half THEN IsSourceHalf(L, c) ELSE IsSourceFull(L, c)

\* The transfer with the credit of the recipient left out.
ApplyShoveDebitOnly(acc, c, t, B, push_dir, amt, doIt) ==
    [acc EXCEPT !.bio = [acc.bio EXCEPT ![c] =
        [iM \in Species |-> IF doIt[iM] THEN RSub(acc.bio[c][iM], amt[iM])
                            ELSE acc.bio[c][iM]]]]

\* Debit of the source and storage or direct credit of one transfer.
\* amt[iM] is shove_bmass, doIt[iM] tells whether species iM is moved.
ApplyShove(acc, c, t, B, push_dir, amt, doIt) ==
    LET bio1 == [acc.bio EXCEPT ![c] =
                    [iM \in Species |-> IF doIt[iM] THEN RSub(acc.bio[c][iM], amt[iM])
                                        ELSE acc.bio[c][iM]]]
    IN  IF push_dir > 0
        THEN [acc EXCEPT
                !.bio = bio1,
                !.cAmt = [acc.cAmt EXCEPT ![c] =
                    [iM \in Species |-> IF doIt[iM] THEN amt[iM] ELSE acc.cAmt[c][iM]]],
                !.cDir = [acc.cDir EXCEPT ![c] =
                    [iM \in Species |-> IF doIt[iM] THEN push_dir ELSE acc.cDir[c][iM]]]]
        ELSE IF InBlock(t, B)
        THEN [acc EXCEPT
                !.bio = [bio1 EXCEPT ![t] =
                    [iM \in Species |-> IF doIt[iM] THEN RAdd(bio1[t][iM], amt[iM])
                                        ELSE bio1[t][iM]]]]
        ELSE [acc EXCEPT
                !.bio = bio1,
                !.env = [acc.env EXCEPT ![t] =
                    [iM \in Species |-> IF doIt[iM] THEN RAdd(acc.env[t][iM], amt[iM])
                                        ELSE acc.env[t][iM]]]]

\* nbrbMt: the total of the neighbour t with mask m, taken as 0 when
\* nbrmaskflag is set.
NbrbMtPoreFull(L, t, m) ==
    IF IsPore(m) THEN Bmax
    ELSE IF m = bb \/ m = solid THEN Zero ELSE L.total[t]

NbrbMt(L, t, m) ==
    LET nbrmaskflag == m = bb \/ m = solid \/ IsPore(m)
    IN  IF nbrmaskflag THEN Zero ELSE L.total[t]

\* The first trial with the amount split evenly over the species.
PrimaryTryEven(acc, L, c, B, nb) ==
    LET t == Add(c, nb.d)
        nbrbMt == NbrbMt(L, t, nb.m)
    IN  IF ~RLt(nbrbMt, Bmax) THEN acc
        ELSE
          LET push_dir == PushDir(BdryDir(c, B), nb.d)
              hold_capacity == RSub(Bmax, nbrbMt)
              over == RGt(acc.bMd, hold_capacity)
              partial_bMassT == IF over THEN hold_capacity ELSE acc.bMd
              shove == [iM \in Species |-> RDiv(partial_bMassT, R(numbM))]
              doIt == [iM \in Species |-> RGt(shove[iM], thrd)]
              acc1 == ApplyShove(acc, c, t, B, push_dir, shove, doIt)
          IN  [acc1 EXCEPT
                 !.bMd = IF over THEN RSub(acc.bMd, hold_capacity) ELSE Zero,
                 !.chk = ~over,
                 !.bMt = RSub(acc.bMt, partial_bMassT),
                 !.xf = acc.xf \cup
                    {[kind |-> "primary", src |-> c, dst |-> t, dstMask |-> nb.m,
                      want |-> acc.bMd, amount |-> partial_bMassT,
                      push_dir |-> push_dir, own |-> InBlock(t, B),
                      share |-> shove,
                      moved |-> [iM \in Species |-> IF doIt[iM] THEN shove[iM] ELSE Zero],
                      srcBefore |-> acc.bio[c], dstBefore |-> acc.bio[t]]}]

\* One iteration of the "first trial" loop for the neighbour entry nb.
PrimaryTry(acc, L, c, B, nb) ==
    LET t == Add(c, nb.d)
        nbrbMt == NbrbMt(L, t, nb.m)
    IN  IF ~RLt(nbrbMt, Bmax) THEN acc
        ELSE
          LET push_dir == PushDir(BdryDir(c, B), nb.d)
              hold_capacity == RSub(Bmax, nbrbMt)
              over == RGt(acc.bMd, hold_capacity)
              partial_bMassT == IF over THEN hold_capacity ELSE acc.bMd
              shove == [iM \in Species |->
                          RMul(RDiv(acc.bio[c][iM], acc.bMt), partial_bMassT)]
              doIt == [iM \in Species |-> RGt(shove[iM], thrd)]
              acc1 == ApplyShove(acc, c, t, B, push_dir, shove, doIt)
          IN  [acc1 EXCEPT
                 !.bMd = IF over THEN RSub(acc.bMd, hold_capacity) ELSE Zero,
                 !.chk = ~over,
                 !.bMt = RSub(acc.bMt, partial_bMassT),
                 !.xf = acc.xf \cup
                    {[kind |-> "primary", src |-> c, dst |-> t, dstMask |-> nb.m,
                      want |-> acc.bMd, amount |-> partial_bMassT,
                      push_dir |-> push_dir, own |-> InBlock(t, B),
                      share |-> shove,
                      moved |-> [iM \in Species |-> IF doIt[iM] THEN shove[iM] ELSE Zero],
                      srcBefore |-> acc.bio[c], dstBefore |-> acc.bio[t]]}]

\* The "first trial" loop over the shuffled neighbours, left at chk == 1.
RECURSIVE Primary(_, _, _, _, _, _, _)
Primary(acc, L, c, B, nbrs, randArray, iT) ==
    IF iT > Len(nbrs) \/ acc.chk THEN acc
    ELSE Only({Primary(a, L, c, B, nbrs, randArray, iT + 1) :
                   a \in {PrimaryTry(acc, L, c, B, nbrs[randArray[iT]])}})

\* The recipient drawn among all neighbours, whatever their age.
FallbackDirAny(L, c, nbrs, r, half) == nbrs[(r % Len(nbrs)) + 1].d

\* Recipient of the remaining biomass: a neighbour whose value in
\* lattices[length-1] is lower than (half push: not higher than) the
\* cell's own, else any neighbour.
FallbackDir(L, c, nbrs, r, half) ==
    LET id0 == L.age[c]
        Lower(nb) == IF half THEN id0 >= L.age[Add(c, nb.d)]
                     ELSE id0 > L.age[Add(c, nb.d)]
        tmp1Vector == SelectSeq(nbrs, Lower)
        tmp1Len == Len(tmp1Vector)
        nbrTlen == Len(nbrs)
    IN  IF tmp1Len > 1 THEN tmp1Vector[(r % tmp1Len) + 1].d
        ELSE IF tmp1Len = 1 THEN tmp1Vector[1].d
        ELSE IF nbrTlen > 1 THEN nbrs[(r % nbrTlen) + 1].d
        ELSE nbrs[1].d

\* The transfer of the remainder with the share taken over the total
\* read at the start of the cell (bMt not reduced by the first trial).
FallbackFromStart(acc, L, c, B, nbrs, r, half) ==
    LET d == FallbackDir(L, c, nbrs, r, half)
        t == Add(c, d)
        push_dir == PushDir(BdryDir(c, B), d)
        shove == [iM \in Species |-> RMul(RDiv(acc.bio[c][iM], L.total[c]), acc.bMd)]
        doIt == [iM \in Species |-> TRUE]
        acc1 == ApplyShove(acc, c, t, B, push_dir, shove, doIt)
    IN  [acc1 EXCEPT
           !.xf = acc.xf \cup
              {[kind |-> "fallback", src |-> c, dst |-> t, dstMask |-> L.mask[t],
                want |-> acc.bMd, amount |-> acc.bMd,
                push_dir |-> push_dir, own |-> InBlock(t, B),
                share |-> shove, moved |-> shove,
                srcBefore |-> acc.bio[c], dstBefore |-> acc.bio[t]]}]

\* Transfer of the remaining bMd to the fallback recipient.
Fallback(acc, L, c, B, nbrs, r, half) ==
    LET d == FallbackDir(L, c, nbrs, r, half)
        t == Add(c, d)
        push_dir == PushDir(BdryDir(c, B), d)
        shove == [iM \in Species |-> RMul(RDiv(acc.bio[c][iM], acc.bMt), acc.bMd)]
        doIt == [iM \in Species |-> TRUE]
        acc1 == ApplyShove(acc, c, t, B, push_dir, shove, doIt)
    IN  [acc1 EXCEPT
           !.xf = acc.xf \cup
              {[kind |-> "fallback", src |-> c, dst |-> t, dstMask |-> L.mask[t],
                want |-> acc.bMd, amount |-> acc.bMd,
                push_dir |-> push_dir, own |-> InBlock(t, B),
                share |-> shove, moved |-> shove,
                srcBefore |-> acc.bio[c], dstBefore |-> acc.bio[t]]}]

\* The cell loop body without the no-neighbour exit.
ProcessCellNoExit(L, c, B, randArray, r, half) ==
    LET nbrs == NbrsLocMask(L, c)
        bMt == L.total[c]
        bMd == IF half THEN RMul(bMt, <<1, 2>>) ELSE RSub(bMt, Bmax)
        acc0 == [bio |-> L.bio, cAmt |-> L.cAmt, cDir |-> L.cDir, env |-> L.env,
                 bMt |-> bMt, bMd |-> bMd, chk |-> FALSE, xf |-> {}, fatal |-> FALSE]
    IN  IF ~IsSource(L, c, half) \/ Len(nbrs) = 0 THEN acc0
        ELSE Only({IF acc1.chk THEN acc1 ELSE Fallback(acc1, L, c, B, nbrs, r, half) :
                       acc1 \in {Primary(acc0, L, c, B, nbrs, randArray, 1)}})

\* The body of the cell loop for the cell c of block B.  The result
\* carries the modified lattices, fatal (the no-neighbour exit was
\* taken) and xf (the transfers made for this cell).
ProcessCell(L, c, B, randArray, r, half) ==
    LET nbrs == NbrsLocMask(L, c)
        bMt == L.total[c]
        bMd == IF half THEN RMul(bMt, <<1, 2>>) ELSE RSub(bMt, Bmax)
        acc0 == [bio |-> L.bio, cAmt |-> L.cAmt, cDir |-> L.cDir, env |-> L.env,
                 bMt |-> bMt, bMd |-> bMd, chk |-> FALSE, xf |-> {}, fatal |-> FALSE]
    IN  IF ~IsSource(L, c, half) THEN acc0
        ELSE IF Len(nbrs) = 0 THEN [acc0 EXCEPT !.fatal = TRUE]
        ELSE Only({IF acc1.chk THEN acc1 ELSE Fallback(acc1, L, c, B, nbrs, r, half) :
                       acc1 \in {Primary(acc0, L, c, B, nbrs, randArray, 1)}})

(* ------------------------------------------------------------------ *)
(* pullExcessBiomass3D: one block                                      *)
(* ------------------------------------------------------------------ *)

\* The six faces of the pull: the face number equals the dir_id looked
\* for, from is the offset of the cell whose copy lattice is read.
PullFaces ==
    << [dir |-> 1, from |-> <<-1, 0, 0>>], [dir |-> 2, from |-> <<1, 0, 0>>],
       [dir |-> 3, from |-> <<0, -1, 0>>], [dir |-> 4, from |-> <<0, 1, 0>>],
       [dir |-> 5, from |-> <<0, 0, -1>>], [dir |-> 6, from |-> <<0, 0, 1>>] >>

\* The cell t of block B is visited by the loop of face f.
OnPullFace(t, B, f) ==
    CASE f = 1 -> t[1] = B.x0 /\ t[1] >= bdryGap
      [] f = 2 -> t[1] = B.x1 /\ t[1] <= nx - 1 - bdryGap
      [] f = 3 -> t[2] = B.y0 /\ t[2] > 0
      [] f = 4 -> t[2] = B.y1 /\ t[2] < ny - 1
      [] f = 5 -> t[3] = B.z0 /\ t[3] > 0
      [] f = 6 -> t[3] = B.z1 /\ t[3] < nz - 1

\* The loop of face f credits species iM of cell t from its neighbour.
PullTakes(L, t, B, f, iM) ==
    /\ InBlock(t, B)
    /\ OnPullFace(t, B, f)
    /\ L.cDir[Add(t, PullFaces[f].from)][iM] = PullFaces[f].dir
    /\ RGt(L.cAmt[Add(t, PullFaces[f].from)][iM], thrd)

RECURSIVE PullSum(_, _, _, _, _)
PullSum(L, t, B, iM, f) ==
    IF f > 6 THEN Zero
    ELSE RAdd(IF PullTakes(L, t, B, f, iM)
              THEN L.cAmt[Add(t, PullFaces[f].from)][iM] ELSE Zero,
              PullSum(L, t, B, iM, f + 1))

\* Biomass lattices after the pull of block B.
PullBlock(L, B) ==
    [t \in Cells |->
        IF InBlock(t, B)
        THEN [iM \in Species |-> RAdd(L.bio[t][iM], PullSum(L, t, B, iM, 1))]
        ELSE L.bio[t]]

RECURSIVE PullAll(_, _, _)
PullAll(L, blocks, k) ==
    IF k > Len(blocks) THEN L.bio
    ELSE Only({PullAll([L EXCEPT !.bio = b], blocks, k + 1) :
                   b \in {PullBlock(L, blocks[k])}})

(* ------------------------------------------------------------------ *)
(* updateLocalMaskNtotalLattices3D                                     *)
(* ------------------------------------------------------------------ *)

RECURSIVE SumOver(_, _, _)
SumOver(f, keep, iM) ==
    IF iM > numbM THEN Zero
    ELSE RAdd(IF keep[iM] THEN f[iM] ELSE Zero, SumOver(f, keep, iM + 1))

RECURSIVE SumIds(_, _)
SumIds(keep, iM) ==
    IF iM > numbM THEN 0
    ELSE (IF keep[iM] THEN bio[iM][1] ELSE 0) + SumIds(keep, iM + 1)

\* First pore-type neighbour mask in delXYZ order, else dflt.
RECURSIVE FirstPoreNbr(_, _, _, _)
FirstPoreNbr(maskAt, ds, i, dflt) ==
    IF i > Len(ds) THEN dflt
    ELSE IF maskAt[i] # bb /\ maskAt[i] # solid /\ IsPore(maskAt[i]) THEN maskAt[i]
    ELSE FirstPoreNbr(maskAt, ds, i + 1, dflt)

\* The cell body with every species counted in bmass, whatever its amount.
MaskCellSum(S, snap, bioL, c, B) ==
    LET mask == S.mask[c]
        present == [iM \in Species |-> RGt(bioL[c][iM], COMPLAB_THRD)]
        bmass == SumOver(bioL[c], [iM \in Species |-> TRUE], 1)
        newmask0 == SumIds(present, 1)
        bMt == S.total[c]
        total1 == IF RGt(RAbs(RSub(bmass, bMt)), COMPLAB_THRD)
                  THEN [S.total EXCEPT ![c] = bmass] ELSE S.total
        poreflag == IsPore(mask)
        ds == GridDirs(c)
        maskAt == [i \in 1..Len(ds) |->
                     IF InBlock(Add(c, ds[i]), B) THEN S.mask[Add(c, ds[i])]
                     ELSE snap.mask[Add(c, ds[i])]]
    IN  IF mask = bb \/ mask = solid THEN S
        ELSE IF ~poreflag /\ RLt(bmass, thrdbMassRho)
        THEN [S EXCEPT !.total = total1,
                       !.mask = [S.mask EXCEPT ![c] =
                           IF Len(pore) > 1 THEN FirstPoreNbr(maskAt, ds, 1, pore[1])
                           ELSE pore[1]]]
        ELSE IF poreflag /\ RGe(bmass, thrdbMassRho)
        THEN IF newmask0 > 0
             THEN [S EXCEPT !.total = total1,
                            !.mask = [S.mask EXCEPT ![c] = newmask0]]
             ELSE [S EXCEPT !.total = total1, !.fatal = TRUE]
        ELSE [S EXCEPT !.total = total1]

\* The cell body.  S.mask / S.total are the lattices being written,
\* snap.mask is the envelope content (the mask before the pass) that is
\* read for neighbours outside block B.
MaskCell(S, snap, bioL, c, B) ==
    LET mask == S.mask[c]
        present == [iM \in Species |-> RGt(bioL[c][iM], COMPLAB_THRD)]
        bmass == SumOver(bioL[c], present, 1)
        newmask0 == SumIds(present, 1)
        bMt == S.total[c]
        total1 == IF RGt(RAbs(RSub(bmass, bMt)), COMPLAB_THRD)
                  THEN [S.total EXCEPT ![c] = bmass] ELSE S.total
        poreflag == IsPore(mask)
        ds == GridDirs(c)
        maskAt == [i \in 1..Len(ds) |->
                     IF InBlock(Add(c, ds[i]), B) THEN S.mask[Add(c, ds[i])]
                     ELSE snap.mask[Add(c, ds[i])]]
    IN  IF mask = bb \/ mask = solid THEN S
        ELSE IF ~poreflag /\ RLt(bmass, thrdbMassRho)
        THEN [S EXCEPT !.total = total1,
                       !.mask = [S.mask EXCEPT ![c] =
                           IF Len(pore) > 1 THEN FirstPoreNbr(maskAt, ds, 1, pore[1])
                           ELSE pore[1]]]
        ELSE IF poreflag /\ RGe(bmass, thrdbMassRho)
        THEN IF newmask0 > 0
             THEN [S EXCEPT !.total = total1,
                            !.mask = [S.mask EXCEPT ![c] = newmask0]]
             ELSE [S EXCEPT !.total = total1, !.fatal = TRUE]
        ELSE [S EXCEPT !.total = total1]

\* The cell loop over cells[lo..hi] in order, left at the fatal exit.
RECURSIVE MaskCells(_, _, _, _, _, _, _)
MaskCells(S, snap, bioL, B, cells, lo, hi) ==
    IF lo > hi \/ S.fatal THEN S
    ELSE IF lo = hi THEN MaskCell(S, snap, bioL, cells[lo], B)
    ELSE Only({MaskCells(S1, snap, bioL, B, cells, (lo + hi) \div 2 + 1, hi) :
                   S1 \in {MaskCells(S, snap, bioL, B, cells, lo, (lo + hi) \div 2)}})

RECURSIVE MaskBlocks(_, _, _, _, _)
MaskBlocks(S, snap, bioL, blocks, k) ==
    IF k > Len(blocks) \/ S.fatal THEN S
    ELSE Only({MaskBlocks(S1, snap, bioL, blocks, k + 1) :
                   S1 \in {MaskCells(S, snap, bioL, blocks[k], BlockCells(blocks[k]),
                                      1, Len(BlockCells(blocks[k])))}})

\* The processor applied to every block: new mask, total, fatal.
UpdateLocalMask(maskL, totalL, bioL, blocks) ==
    LET S0 == [mask |-> maskL, total |-> totalL, fatal |-> FALSE]
    IN  MaskBlocks(S0, S0, bioL, blocks, 1)

\* The maximum taken with the y loop started at 1.
ComputeMaxInner(totalL) ==
    CHOOSE m \in {totalL[c] : c \in {d \in Cells : d[2] >= 1}} :
        \A c \in {d \in Cells : d[2] >= 1} : RLe(totalL[c], m)

\* computeMax(*computeDensity(totalbFilmLattice))
ComputeMax(totalL) ==
    CHOOSE m \in {totalL[c] : c \in Cells} : \A c \in Cells : RLe(totalL[c], m)

(* ------------------------------------------------------------------ *)
(* Distance field and updateAgeDistance3D                              *)
(* ------------------------------------------------------------------ *)

\* distVec after the first loop of calculateDistanceFromSolid; the last
\* x, y and z planes are not visited and keep the initial 0.
DistVec0(geom, c) ==
    IF c[1] < nx - 1 /\ c[2] < ny - 1 /\ c[3] < nz - 1
    THEN IF geom[c] = solid THEN -1 ELSE IF geom[c] = bb THEN 0 ELSE 1
    ELSE 0

\* In-plane ring search of the second loop: the least r with a 0 entry
\* at |dx| + |dy| = r in the same z plane.
RECURSIVE RingSearch(_, _, _)
RingSearch(geom, c, r) ==
    IF \E c2 \in Cells :
          /\ c2[3] = c[3]
          /\ Abs(c2[1] - c[1]) + Abs(c2[2] - c[2]) = r
          /\ DistVec0(geom, c2) = 0
    THEN r
    ELSE RingSearch(geom, c, r + 1)

calculateDistanceFromSolid(geom) ==
    [c \in Cells |-> IF DistVec0(geom, c) = 1 THEN RingSearch(geom, c, 1)
                     ELSE DistVec0(geom, c)]

\* createAgeDomain3D
createAgeDomain(geom) ==
    [c \in Cells |-> IF geom[c] = solid \/ geom[c] = bb THEN -1
                     ELSE IF IsPore(geom[c]) THEN 0 ELSE 1]

\* The cell body with the neighbours' age compared for equality.
AgeCellEq(ageL, snapAge, distL, totalL, c, B) ==
    LET Bc == totalL[c]
        ds == GridDirs(c)
        Far(d) == distL[Add(c, d)] > 0
        del == SelectSeq(ds, Far)
        ageAt(d) == IF InBlock(Add(c, d), B) THEN ageL[Add(c, d)]
                    ELSE snapAge[Add(c, d)]
        age == ageL[c]
        blocked1 == \E i \in 1..Len(del) :
                       distL[Add(c, del[i])] > 0 /\ ageAt(del[i]) = 0
        count == Cardinality({i \in 1..Len(del) :
                     /\ ageAt(del[i]) = age
                     /\ RGt(RSub(totalL[Add(c, del[i])], Bmax),
                            <<-COMPLAB_THRD[1], COMPLAB_THRD[2]>>)})
    IN  IF ~RGt(Bc, COMPLAB_THRD) THEN ageL
        ELSE IF age = 0 THEN [ageL EXCEPT ![c] = 1]
        ELSE IF age = 1 /\ RGt(RSub(Bc, Bmax), <<-COMPLAB_THRD[1], COMPLAB_THRD[2]>>)
        THEN IF blocked1 THEN ageL ELSE [ageL EXCEPT ![c] = 2]
        ELSE IF count = Len(del) THEN [ageL EXCEPT ![c] = age + 1]
        ELSE ageL

\* The cell body of updateAgeDistance3D.  ageL is the lattice being
\* written, snapAge the envelope content read outside block B.
AgeCell(ageL, snapAge, distL, totalL, c, B) ==
    LET Bc == totalL[c]
        ds == GridDirs(c)
        Far(d) == distL[Add(c, d)] > 0
        del == SelectSeq(ds, Far)
        ageAt(d) == IF InBlock(Add(c, d), B) THEN ageL[Add(c, d)]
                    ELSE snapAge[Add(c, d)]
        age == ageL[c]
        blocked1 == \E i \in 1..Len(del) :
                       distL[Add(c, del[i])] > 0 /\ ageAt(del[i]) = 0
        count == Cardinality({i \in 1..Len(del) :
                     /\ ageAt(del[i]) >= age
                     /\ RGt(RSub(totalL[Add(c, del[i])], Bmax),
                            <<-COMPLAB_THRD[1], COMPLAB_THRD[2]>>)})
    IN  IF ~RGt(Bc, COMPLAB_THRD) THEN ageL
        ELSE IF age = 0 THEN [ageL EXCEPT ![c] = 1]
        ELSE IF age = 1 /\ RGt(RSub(Bc, Bmax), <<-COMPLAB_THRD[1], COMPLAB_THRD[2]>>)
        THEN IF blocked1 THEN ageL ELSE [ageL EXCEPT ![c] = 2]
        ELSE IF count = Len(del) THEN [ageL EXCEPT ![c] = age + 1]
        ELSE ageL

\* The cell loop over cells[lo..hi] in order.
RECURSIVE AgeCells(_, _, _, _, _, _, _, _)
AgeCells(ageL, snapAge, distL, totalL, B, cells, lo, hi) ==
    IF lo > hi THEN ageL
    ELSE IF lo = hi THEN AgeCell(ageL, snapAge, distL, totalL, cells[lo], B)
    ELSE Only({AgeCells(a, snapAge, distL, totalL, B, cells, (lo + hi) \div 2 + 1, hi) :
                   a \in {AgeCells(ageL, snapAge, distL, totalL, B, cells,
                                    lo, (lo + hi) \div 2)}})

RECURSIVE AgeBlocks(_, _, _, _, _, _)
AgeBlocks(ageL, snapAge, distL, totalL, blocks, k) ==
    IF k > Len(blocks) THEN ageL
    ELSE Only({AgeBlocks(a, snapAge, distL, totalL, blocks, k + 1) :
                   a \in {AgeCells(ageL, snapAge, distL, totalL, blocks[k],
                                    BlockCells(blocks[k]), 1, Len(BlockCells(blocks[k])))}})

updateAgeDistance(ageL, distL, totalL, blocks) ==
    AgeBlocks(ageL, ageL, distL, totalL, blocks, 1)

AllCells == BlockCells(Box(0, nx-1, 0, ny-1, 0, nz-1))

\* roundToInt(computeAverage(*computeDensity(ageLattice))*nx*ny*nz)
RECURSIVE TotAge(_, _, _)
TotAge(ageL, lo, hi) ==
    IF lo > hi THEN 0
    ELSE IF lo = hi THEN ageL[AllCells[lo]]
    ELSE TotAge(ageL, lo, (lo + hi) \div 2) + TotAge(ageL, (lo + hi) \div 2 + 1, hi)

\* roundToInt(computeAverage(*computeDensity(maskLattice))*nx*ny*nz)
TotMask(maskL) == TotAge(maskL, 1, Len(AllCells))

(* ------------------------------------------------------------------ *)
(* State                                                               *)
(* ------------------------------------------------------------------ *)
VARIABLES
    mask,        \* maskLattice
    bFilm,       \* vec_bFilm_lattices
    cAmt,        \* vec_bFcopy_lattices, density
    cDir,        \* vec_bFcopy_lattices, omega
    total,       \* totalbFilmLattice
    age,         \* ageLattice
    dist,        \* distLattice
    env,         \* biomass written into envelopes during the push pass
    decomp,      \* block structure of the lattices
    halfflag,    \* push policy
    pc,          \* position in the CA step of main
    err,         \* which fatal exit was taken
    cur,         \* position of the push pass in the block / cell loops
    whilecount, whilecount1, globalBmax,
    bio0,        \* history: biomass at the start of the step
    sum0,        \* history: per-species biomass sum at the start of the sweep
    pre,         \* history: biomass and copy lattices before the last cell
    xf,          \* history: transfers made for the last processed cell
    lastSrc,     \* history: the last processed cell and its block
    nCredit,     \* history: credits taken from each staged entry by the last pull
    stageSweep,  \* history: sweep in which a cell last staged a transfer
    ref,         \* splitX: biomass of the same sweep on one block, same choices
    iT,          \* iteration of the main loop
    old_totMask, \* grid-wide sum of the mask at the last flow update
    everFull     \* history: cells that have held Bmax or more at some time

vars == <<mask, bFilm, cAmt, cDir, total, age, dist, env, decomp, halfflag, pc, err,
          cur, whilecount, whilecount1, globalBmax,
          bio0, sum0, pre, xf, lastSrc, nCredit, stageSweep, ref, iT, old_totMask,
          everFull>>

\* The variables of the main loop outside the CA expansion.
outer == <<iT, old_totMask>>

Blocks == Decomps[decomp]

Lat == [bio |-> bFilm, cAmt |-> cAmt, cDir |-> cDir, env |-> env,
        total |-> total, mask |-> mask, age |-> age]

ZeroField == [c \in Cells |-> [iM \in Species |-> Zero]]
DirField == [c \in Cells |-> [iM \in Species |-> 0]]

CellTotal(b) == SumOver(b, [iM \in Species |-> TRUE], 1)

\* The cells whose biomass or whose entry in the total lattice is at
\* or above Bmax.
FullCells(bioL, totalL) ==
    {c \in Cells : RGe(CellTotal(bioL[c]), Bmax) \/ RGe(totalL[c], Bmax)}

\* The history of full cells follows the lattices.
Track == everFull' = everFull \cup FullCells(bFilm', total')

\* Sum of species iM over the cells that are neither solid nor wall.
RECURSIVE SumRange(_, _, _, _, _)
SumRange(bioL, maskL, iM, lo, hi) ==
    IF lo > hi THEN Zero
    ELSE IF lo = hi
    THEN IF maskL[AllCells[lo]] # solid /\ maskL[AllCells[lo]] # bb
         THEN bioL[AllCells[lo]][iM] ELSE Zero
    ELSE RAdd(SumRange(bioL, maskL, iM, lo, (lo + hi) \div 2),
              SumRange(bioL, maskL, iM, (lo + hi) \div 2 + 1, hi))

SumBio(bioL, maskL, iM) == SumRange(bioL, maskL, iM, 1, Len(AllCells))

(* ------------------------------------------------------------------ *)
(* Initial states: the lattices when the CA step of main is entered    *)
(* ------------------------------------------------------------------ *)
Kinds == {"solid", "wall", "pore", "film", "brim", "over", "overMix", "overTrace"}
SrcKinds == {"film", "over", "overMix", "overTrace"}

KindBio(k) ==
    CASE k = "brim"    -> [iM \in Species |-> IF iM = 1 THEN RAdd(Bmax, thrd) ELSE Zero]
      [] k = "film"    -> [iM \in Species |-> IF iM = 1 THEN <<3, 2>> ELSE Zero]
      [] k = "over"    -> [iM \in Species |-> IF iM = 1 THEN R(3) ELSE Zero]
      [] k = "overMix" -> [iM \in Species |-> <<3, numbM>>]
      [] k = "overTrace" -> [iM \in Species |-> IF iM = 1 THEN <<257 - numbM, 64>>
                                                  ELSE <<1, 64>>]
      [] OTHER         -> [iM \in Species |-> Zero]

KindMask(k) ==
    CASE k = "solid" -> solid
      [] k = "wall"  -> bb
      [] k = "pore" -> pore[1]
      [] OTHER -> bio[1][1]

\* The cells around the corner of the blocks carry the varying load.
ActiveCells == {<<xCut - 1, 0, 0>>, <<xCut, 0, 0>>, <<xCut - 1, 1, 0>>}

\* Kind of every cell: the x = 0 and x = nx-1 planes repeat the
\* geometry of their neighbour plane (readGeometry) and hold no biomass.
KindOf(ks, c) ==
    LET inner == <<IF c[1] = 0 THEN 1 ELSE IF c[1] = nx - 1 THEN nx - 2 ELSE c[1],
                   c[2], c[3]>>
        k == IF inner \in ActiveCells THEN ks[inner]
             ELSE IF inner[3] >= 1 THEN "solid" ELSE "pore"
    IN  IF c = inner THEN k
        ELSE IF k \in {"solid", "wall"} THEN k ELSE "pore"

\* The load of each varying cell: the first one always holds biomass,
\* the mixed-species loads (even, or all but a trace in species 1) are
\* placed on it, the brim load beside it.  The trace load stands among
\* cells without biomass.
KindsAt(c) ==
    IF c = <<xCut - 1, 0, 0>> THEN SrcKinds
    ELSE IF c = <<xCut, 0, 0>> THEN Kinds \ {"overMix", "overTrace"}
    ELSE Kinds \ {"overMix", "overTrace", "brim"}

Init ==
    \E ks \in {k \in [ActiveCells -> Kinds] :
                  /\ \A c \in ActiveCells : k[c] \in KindsAt(c)
                  /\ k[<<xCut - 1, 0, 0>>] = "overTrace" =>
                        \A c \in ActiveCells \ {<<xCut - 1, 0, 0>>} :
                            k[c] \in {"solid", "wall", "pore"}},
       d \in DOMAIN Decomps, h \in BOOLEAN :
        LET b == [c \in Cells |-> KindBio(KindOf(ks, c))]
            m == [c \in Cells |-> KindMask(KindOf(ks, c))]
        IN  /\ bFilm = b
            /\ bio0 = b
            /\ mask = m
            /\ total = [c \in Cells |-> IF RLe(CellTotal(b[c]), RAdd(Bmax, thrd))
                                         THEN CellTotal(b[c]) ELSE Bmax]
            /\ age = createAgeDomain(m)
            /\ dist = calculateDistanceFromSolid(m)
            /\ decomp = d
            /\ halfflag = h
    /\ cAmt = ZeroField
    /\ cDir = DirField
    /\ env = ZeroField
    /\ pc = "start"
    /\ err = "none"
    /\ cur = 0
    /\ whilecount = 0
    /\ whilecount1 = 0
    /\ globalBmax = Zero
    /\ sum0 = [iM \in Species |-> Zero]
    /\ pre = [bio |-> b, cAmt |-> ZeroField, cDir |-> DirField]
    /\ xf = {}
    /\ lastSrc = << >>
    /\ nCredit = DirField
    /\ stageSweep = [c \in Cells |-> 0]
    /\ ref = bFilm
    /\ iT = 0
    /\ old_totMask = TotMask(mask)
    /\ everFull = FullCells(bFilm, total)

(* ------------------------------------------------------------------ *)
(* The CA biomass expansion step of main                               *)
(* ------------------------------------------------------------------ *)
hist == <<bio0, sum0, pre, xf, lastSrc, nCredit, stageSweep, ref>>

\* The loop test without the tolerance.
OverNoTol(g) == RGt(g, Bmax)

\* globalBmax - Bmax > thrd
Over(g) == RGt(RSub(g, Bmax), thrd)

\* updateLocalMaskNtotalLattices3D, computeMax and the test that
\* opens the push-pull loop.
StepStart ==
    /\ pc = "start"
    /\ \E S \in {UpdateLocalMask(mask, total, bFilm, Blocks)} :
         LET g == ComputeMax(S.total)
         IN
           /\ mask' = S.mask
           /\ total' = S.total
           /\ globalBmax' = g
           /\ IF S.fatal THEN pc' = "fatal" /\ err' = "maskFail"
              ELSE /\ err' = err
                   /\ pc' = IF Over(g) THEN "reset" ELSE "done"
    /\ whilecount' = 0
    /\ UNCHANGED <<bFilm, cAmt, cDir, age, dist, env, decomp, halfflag, cur,
                   whilecount1, hist>>
    /\ UNCHANGED outer
    /\ Track

\* The sweep started without clearing the copy lattices.
ResetCopyKeep ==
    /\ pc = "reset"
    /\ whilecount < MaxSweeps
    /\ pc' = "push"
    /\ cur' = 1
    /\ sum0' = [iM \in Species |-> SumBio(bFilm, mask, iM)]
    /\ xf' = {}
    /\ lastSrc' = << >>
    /\ ref' = bFilm
    /\ UNCHANGED <<mask, bFilm, cAmt, cDir, total, age, dist, env, decomp, halfflag,
                   err, whilecount, whilecount1, globalBmax, bio0, pre, nCredit,
                   stageSweep>>
    /\ UNCHANGED outer
    /\ UNCHANGED everFull

\* vec_bFcopy_lattices[iM] = copybFilmLattice
ResetCopyStep ==
    /\ pc = "reset"
    /\ cAmt' = ZeroField
    /\ cDir' = DirField
    /\ pc' = "push"
    /\ cur' = 1
    /\ sum0' = [iM \in Species |-> SumBio(bFilm, mask, iM)]
    /\ xf' = {}
    /\ lastSrc' = << >>
    /\ ref' = bFilm
    /\ UNCHANGED <<mask, bFilm, total, age, dist, env, decomp, halfflag, err,
                   whilecount, whilecount1, globalBmax, bio0, pre, nCredit, stageSweep>>
    /\ UNCHANGED outer
    /\ UNCHANGED everFull

\* The same, for the first MaxSweeps sweeps of a step.
ResetCopy == whilecount < MaxSweeps /\ ResetCopyStep

\* The cells of all blocks in processing order, as <<block, cell>>.
RECURSIVE PushOrder(_, _)
PushOrder(blocks, k) ==
    IF k > Len(blocks) THEN << >>
    ELSE [i \in 1..Len(BlockCells(blocks[k])) |-> <<k, BlockCells(blocks[k])[i]>>]
         \o PushOrder(blocks, k + 1)

\* Position of the next cell at or after i that passes the source test.
Orders == [d \in DOMAIN Decomps |-> PushOrder(Decomps[d], 1)]

NextSrc(L, order, i, half) ==
    LET S == {j \in i..Len(order) : IsSource(L, order[j][2], half)}
    IN  IF S = {} THEN 0 ELSE CHOOSE j \in S : \A k \in S : j <= k

\* The push pass reaches its next source cell and processes it.
PushCell ==
    /\ pc = "push"
    /\ \E order \in {Orders[decomp]} :
         \E i \in {NextSrc(Lat, order, cur, halfflag)} :
           /\ i > 0
           /\ LET c == order[i][2]
                  B == Blocks[order[i][1]]
              IN  \E randArray \in Shuffles(Len(NbrsLocMask(Lat, c))),
                     r \in RandVals(Len(NbrsLocMask(Lat, c))) :
                     \E res \in {ProcessCell(Lat, c, B, randArray, r, halfflag)} :
                         /\ r = 0 \/ \E x \in res.xf : x.kind = "fallback"
                         /\ bFilm' = res.bio
                         /\ cAmt' = res.cAmt
                         /\ cDir' = res.cDir
                         /\ env' = res.env
                         /\ xf' = res.xf
                         /\ lastSrc' = <<c, order[i][1]>>
                         /\ pre' = [bio |-> bFilm, cAmt |-> cAmt, cDir |-> cDir]
                         /\ stageSweep' =
                              IF \E x \in res.xf : x.push_dir > 0
                              THEN [stageSweep EXCEPT ![c] = whilecount + 1]
                              ELSE stageSweep
                         /\ IF res.fatal
                            THEN pc' = "fatal" /\ err' = "noNeighbor"
                            ELSE pc' = pc /\ err' = err
                         /\ cur' = i + 1
                         /\ ref' = IF decomp = "splitX"
                                    THEN ProcessCell([Lat EXCEPT !.bio = ref], c,
                                             Decomps.single[1], randArray, r, halfflag).bio
                                    ELSE ref
    /\ UNCHANGED <<mask, total, age, dist, decomp, halfflag,
                   whilecount, whilecount1, globalBmax, bio0, sum0, nCredit>>
    /\ UNCHANGED outer
    /\ Track

\* The push pass has no source cell left; the envelopes are refreshed
\* from their owners and pullExcessBiomass3D runs on every block.
Pull ==
    /\ pc = "push"
    /\ NextSrc(Lat, Orders[decomp], cur, halfflag) = 0
    /\ bFilm' = PullAll(Lat, Blocks, 1)
    /\ env' = ZeroField
    /\ nCredit' = [s \in Cells |-> [iM \in Species |->
            Cardinality({kf \in (1..Len(Blocks)) \X (1..6) :
                LET t == <<s[1] - PullFaces[kf[2]].from[1],
                           s[2] - PullFaces[kf[2]].from[2],
                           s[3] - PullFaces[kf[2]].from[3]>>
                IN  t \in Cells /\ PullTakes(Lat, t, Blocks[kf[1]], kf[2], iM)})]]
    /\ pc' = "update"
    /\ UNCHANGED <<mask, cAmt, cDir, total, age, dist, decomp, halfflag, err, cur,
                   whilecount, whilecount1, globalBmax,
                   bio0, sum0, pre, xf, lastSrc, stageSweep, ref>>
    /\ UNCHANGED outer
    /\ Track

\* updateLocalMaskNtotalLattices3D and computeMax after the pull.
Update ==
    /\ pc = "update"
    /\ \E S \in {UpdateLocalMask(mask, total, bFilm, Blocks)} :
           /\ mask' = S.mask
           /\ total' = S.total
           /\ globalBmax' = ComputeMax(S.total)
           /\ IF S.fatal THEN pc' = "fatal" /\ err' = "maskFail"
              ELSE /\ err' = err
                   /\ pc' = IF whilecount % 50 = 0 THEN "age" ELSE "bound"
    /\ whilecount1' = 0
    /\ UNCHANGED <<bFilm, cAmt, cDir, age, dist, env, decomp, halfflag, cur,
                   whilecount, hist>>
    /\ UNCHANGED outer
    /\ Track

\* One turn of the age loop that leaves the loop whatever diff is.
AgePassOnce ==
    /\ pc = "age"
    /\ age' = updateAgeDistance(age, dist, total, Blocks)
    /\ whilecount1' = whilecount1 + 1
    /\ pc' = "bound"
    /\ UNCHANGED <<mask, bFilm, cAmt, cDir, total, dist, env, decomp, halfflag, cur,
                   whilecount, globalBmax, err, hist>>
    /\ UNCHANGED outer
    /\ UNCHANGED everFull

\* One turn of the age loop: updateAgeDistance3D, diff, whilecount1.
AgePassStep ==
    /\ pc = "age"
    /\ \E a \in {updateAgeDistance(age, dist, total, Blocks)} :
         LET diff == TotAge(a, 1, Len(AllCells)) - TotAge(age, 1, Len(AllCells))
         IN
           /\ age' = a
           /\ whilecount1' = whilecount1 + 1
           /\ IF whilecount1 + 1 > AgeCap THEN pc' = "fatal" /\ err' = "ageLoop"
              ELSE /\ err' = err
                   /\ pc' = IF diff # 0 THEN "age" ELSE "bound"
    /\ UNCHANGED <<mask, bFilm, cAmt, cDir, total, dist, env, decomp, halfflag, cur,
                   whilecount, globalBmax, hist>>
    /\ UNCHANGED outer
    /\ UNCHANGED everFull

\* The same, for the first MaxAgePasses turns of a refresh.
AgePass == whilecount1 < MaxAgePasses /\ AgePassStep

\* The whilecount test, its increment and the loop condition.
Bound ==
    /\ pc = "bound"
    /\ IF whilecount > SweepCap
       THEN pc' = "fatal" /\ err' = "sweepBound" /\ whilecount' = whilecount
       ELSE /\ whilecount' = whilecount + 1
            /\ err' = err
            /\ pc' = IF Over(globalBmax) THEN "reset" ELSE "done"
    /\ UNCHANGED <<mask, bFilm, cAmt, cDir, total, age, dist, env, decomp, halfflag,
                   cur, whilecount1, globalBmax, hist>>
    /\ UNCHANGED outer
    /\ UNCHANGED everFull

Next == StepStart \/ ResetCopy \/ PushCell \/ Pull \/ Update \/ AgePass \/ Bound

Spec == Init /\ [][Next]_vars

(* ------------------------------------------------------------------ *)
(* The same step run to the caps of its two loops                      *)
(* ------------------------------------------------------------------ *)
\* Geometries on which a loop of the step does not settle.
\*   pocket:   two over-capacity cells side by side, closed in by solid;
\*   isolated: a biofilm cell closed in by solid, beside an
\*             over-capacity cell that has a pore neighbour.
CapLoads == {"pocket", "isolated"}
CapDecomps == {"single", "splitX"}

KindOfCap(load, c) ==
    LET inner == <<IF c[1] = 0 THEN 1 ELSE IF c[1] = nx - 1 THEN nx - 2 ELSE c[1],
                   c[2], c[3]>>
        k == IF load = "pocket"
             THEN IF inner \in {<<xCut - 1, 0, 0>>, <<xCut, 0, 0>>} THEN "over"
                  ELSE "solid"
             ELSE IF inner = <<xCut, 0, 0>> THEN "film"
                  ELSE IF inner = <<xCut - 1, 1, 0>> THEN "over"
                  ELSE IF inner = <<xCut - 1, 2, 0>> THEN "pore"
                  ELSE "solid"
    IN  IF c = inner THEN k
        ELSE IF k \in {"solid", "wall"} THEN k ELSE "pore"

InitCap ==
    \E load \in CapLoads, d \in CapDecomps :
        LET b == [c \in Cells |-> KindBio(KindOfCap(load, c))]
            m == [c \in Cells |-> KindMask(KindOfCap(load, c))]
        IN  /\ bFilm = b
            /\ bio0 = b
            /\ mask = m
            /\ total = [c \in Cells |-> IF RLe(CellTotal(b[c]), RAdd(Bmax, thrd))
                                         THEN CellTotal(b[c]) ELSE Bmax]
            /\ age = createAgeDomain(m)
            /\ dist = calculateDistanceFromSolid(m)
            /\ decomp = d
            /\ halfflag = FALSE
            /\ pre = [bio |-> b, cAmt |-> ZeroField, cDir |-> DirField]
    /\ cAmt = ZeroField
    /\ cDir = DirField
    /\ env = ZeroField
    /\ pc = "start"
    /\ err = "none"
    /\ cur = 0
    /\ whilecount = 0
    /\ whilecount1 = 0
    /\ globalBmax = Zero
    /\ sum0 = [iM \in Species |-> Zero]
    /\ xf = {}
    /\ lastSrc = << >>
    /\ nCredit = DirField
    /\ stageSweep = [c \in Cells |-> 0]
    /\ ref = bFilm
    /\ iT = 0
    /\ old_totMask = TotMask(mask)
    /\ everFull = FullCells(bFilm, total)

NextCap == StepStart \/ ResetCopyStep \/ PushCell \/ Pull \/ Update \/ AgePassStep \/ Bound

SpecCap == InitCap /\ [][NextCap]_vars

(* ------------------------------------------------------------------ *)
(* The step on a dead end beside a passage to the pore space           *)
(* ------------------------------------------------------------------ *)
\* Three biofilm cells in a line that turns once: the dead end, the
\* junction (over capacity on entry) and the passage, which alone has
\* a pore neighbour; every other inner cell is solid.  The junction's
\* remainder goes to the dead end or to the passage by std::rand().
DeadEnd == <<1, 0, 0>>
Junction == <<2, 0, 0>>
Passage == <<2, 1, 0>>
PassagePore == <<2, 2, 0>>

KindOfDetour(c) ==
    LET inner == <<IF c[1] = 0 THEN 1 ELSE IF c[1] = nx - 1 THEN nx - 2 ELSE c[1],
                   c[2], c[3]>>
        k == IF inner = PassagePore THEN "pore"
             ELSE IF inner \in {DeadEnd, Junction, Passage} THEN "film"
             ELSE "solid"
    IN  IF c = inner THEN k
        ELSE IF k \in {"solid", "wall"} THEN k ELSE "pore"

\* Biomass on entry: the junction holds 3, its two neighbours Bmax.
DetourBio(c) ==
    [iM \in Species |->
        IF iM # 1 THEN Zero
        ELSE IF c = Junction THEN R(3)
        ELSE IF c \in {DeadEnd, Passage} THEN Bmax
        ELSE Zero]

InitDetour ==
    /\ LET b == [c \in Cells |-> DetourBio(c)]
           m == [c \in Cells |-> KindMask(KindOfDetour(c))]
       IN  /\ bFilm = b
           /\ bio0 = b
           /\ mask = m
           /\ total = [c \in Cells |-> IF RLe(CellTotal(b[c]), Bmax)
                                        THEN CellTotal(b[c]) ELSE Bmax]
           /\ age = createAgeDomain(m)
           /\ dist = calculateDistanceFromSolid(m)
           /\ pre = [bio |-> b, cAmt |-> ZeroField, cDir |-> DirField]
           /\ old_totMask = TotMask(m)
    /\ decomp = "single"
    /\ halfflag = FALSE
    /\ cAmt = ZeroField
    /\ cDir = DirField
    /\ env = ZeroField
    /\ pc = "start"
    /\ err = "none"
    /\ cur = 0
    /\ whilecount = 0
    /\ whilecount1 = 0
    /\ globalBmax = Zero
    /\ sum0 = [iM \in Species |-> Zero]
    /\ xf = {}
    /\ lastSrc = << >>
    /\ nCredit = DirField
    /\ stageSweep = [c \in Cells |-> 0]
    /\ ref = bFilm
    /\ iT = 0
    /\ everFull = FullCells(bFilm, total)

SpecDetour == InitDetour /\ [][NextCap]_vars

(* ------------------------------------------------------------------ *)
(* The main loop on a chain of biofilm cells                           *)
(* ------------------------------------------------------------------ *)
\* A pore cell beside the inlet plane, then a line of biofilm cells that
\* runs along x and turns along y; every other inner cell is solid.
ChainLen == (nx - 3) + (ny - 2)
ChainPore == <<1, 0, 0>>
Chain == [i \in 1..ChainLen |-> IF i <= nx - 3 THEN <<1 + i, 0, 0>>
                                ELSE <<nx - 2, i - (nx - 3), 0>>]
ChainCells == {Chain[i] : i \in 1..ChainLen}

\* Biomass of a chain cell on entry, half of Bmax.
ChainBio == [iM \in Species |-> IF iM = 1 THEN thrdbMassRho ELSE Zero]

\* Growth increments dB written by the kinetics into one cell.
GrowthSteps == {<<5, 4>>, <<3, 2>>}

KindOfChain(c) ==
    LET inner == <<IF c[1] = 0 THEN 1 ELSE IF c[1] = nx - 1 THEN nx - 2 ELSE c[1],
                   c[2], c[3]>>
        k == IF inner = ChainPore THEN "pore"
             ELSE IF inner \in ChainCells THEN "film"
             ELSE "solid"
    IN  IF c = inner THEN k
        ELSE IF k \in {"solid", "wall"} THEN k ELSE "pore"

InitChain ==
    \E d \in CapDecomps :
        LET b == [c \in Cells |-> IF c \in ChainCells THEN ChainBio
                                  ELSE [iM \in Species |-> Zero]]
            m == [c \in Cells |-> KindMask(KindOfChain(c))]
        IN  /\ bFilm = b
            /\ bio0 = b
            /\ mask = m
            /\ total = [c \in Cells |-> CellTotal(b[c])]
            /\ age = createAgeDomain(m)
            /\ dist = calculateDistanceFromSolid(m)
            /\ decomp = d
            /\ halfflag = FALSE
            /\ pre = [bio |-> b, cAmt |-> ZeroField, cDir |-> DirField]
            /\ old_totMask = TotMask(m)
    /\ cAmt = ZeroField
    /\ cDir = DirField
    /\ env = ZeroField
    /\ pc = "grow"
    /\ err = "none"
    /\ cur = 0
    /\ whilecount = 0
    /\ whilecount1 = 0
    /\ globalBmax = Zero
    /\ sum0 = [iM \in Species |-> Zero]
    /\ xf = {}
    /\ lastSrc = << >>
    /\ nCredit = DirField
    /\ stageSweep = [c \in Cells |-> 0]
    /\ ref = bFilm
    /\ iT = 0
    /\ everFull = FullCells(bFilm, total)

\* update_rxnLattices: the biomass increment dB of this iteration is
\* added to species 1 of the next cell of the chain, counted from the
\* pore.
Grow ==
    /\ pc = "grow"
    /\ iT < ChainLen
    /\ \E dB \in GrowthSteps :
         /\ RGt(dB, thrd)
         /\ bFilm' = [bFilm EXCEPT ![Chain[iT + 1]][1] = RAdd(@, dB)]
    /\ bio0' = bFilm'
    /\ ref' = bFilm'
    /\ pc' = "start"
    /\ UNCHANGED <<mask, cAmt, cDir, total, age, dist, env, decomp, halfflag, err,
                   cur, whilecount, whilecount1, globalBmax, sum0, pre, xf, lastSrc,
                   nCredit, stageSweep, outer>>
    /\ Track

\* The end of the iteration with the age lattice made anew from the mask.
UpdateFlowNewAge ==
    /\ pc = "done"
    /\ IF TotMask(mask) # old_totMask
       THEN /\ old_totMask' = TotMask(mask)
            /\ age' = updateAgeDistance(createAgeDomain(mask), dist, total, Blocks)
       ELSE UNCHANGED <<old_totMask, age>>
    /\ iT' = iT + 1
    /\ pc' = "grow"
    /\ UNCHANGED <<mask, bFilm, cAmt, cDir, total, dist, env, decomp, halfflag, err,
                   cur, whilecount, whilecount1, globalBmax, hist>>
    /\ UNCHANGED everFull

\* The end of the iteration: if the grid-wide sum of the mask changed,
\* one updateAgeDistance3D pass; then ++iT.
UpdateFlow ==
    /\ pc = "done"
    /\ IF TotMask(mask) # old_totMask
       THEN /\ old_totMask' = TotMask(mask)
            /\ age' = updateAgeDistance(age, dist, total, Blocks)
       ELSE UNCHANGED <<old_totMask, age>>
    /\ iT' = iT + 1
    /\ pc' = "grow"
    /\ UNCHANGED <<mask, bFilm, cAmt, cDir, total, dist, env, decomp, halfflag, err,
                   cur, whilecount, whilecount1, globalBmax, hist>>
    /\ UNCHANGED everFull

NextChain ==
    \/ Grow \/ StepStart \/ ResetCopyStep \/ PushCell \/ Pull \/ Update
    \/ AgePassStep \/ Bound \/ UpdateFlow

SpecChain == InitChain /\ [][NextChain]_vars

(* ------------------------------------------------------------------ *)
(* The program from its start: geometry, first mask update, restart,   *)
(* kinetics with growth and decay, CA step, flow update                *)
(* ------------------------------------------------------------------ *)
MaxIter == 1

\* Two inner cells in a row along x carry the varying geometry; the
\* inlet and outlet planes repeat them (readGeometry).  Every other cell
\* of the layer z = 0 is a pore cell, the layers above are solid.
LifeA == <<1, 0, 0>>
LifeB == <<nx - 2, 0, 0>>
LifeIn == <<0, 0, 0>>
LifeKinds == {"pore", "film"}

KindOfLife(ks, c) ==
    LET inner == <<IF c[1] = 0 THEN 1 ELSE IF c[1] = nx - 1 THEN nx - 2 ELSE c[1],
                   c[2], c[3]>>
    IN  IF inner \in {LifeA, LifeB} THEN ks[inner]
        ELSE IF inner[3] >= 1 THEN "solid" ELSE "pore"

\* Initial biomass b0 of species 1 in the cells of its biofilm type:
\* below the biofilm threshold, or between the threshold and Bmax.
LifeB0 == {<<1, 2>>, <<3, 2>>}

\* initializeScalarLattice3D over the whole bounding box: b0 in every
\* cell whose geometry value is the species' type id.
initializeScalarLattice(geom, b0) ==
    [c \in Cells |-> [iM \in Species |->
        IF geom[c] = bio[iM][1] THEN b0[iM] ELSE Zero]]

\* Biomass of a cell in a checkpoint file: none, at the threshold with
\* a share of species 2 at the tolerance COMPLAB_THRD, and a biofilm
\* load.
LifeLoads ==
    {[iM \in Species |-> Zero],
     [iM \in Species |-> IF iM = 1 THEN RSub(thrdbMassRho, COMPLAB_THRD)
                         ELSE IF iM = 2 THEN COMPLAB_THRD ELSE Zero],
     [iM \in Species |-> IF iM = 1 THEN <<3, 2>> ELSE Zero]}

\* Increments dB of species 1 written by the kinetics into one cell:
\* growth by a fixed amount, first-order decay of three quarters.
LifeGrowth == <<5, 4>>
LifeDecay(b) == RSub(Zero, RMul(b, <<3, 4>>))

InitLife ==
    \E ks \in [{LifeA, LifeB} -> LifeKinds], b1 \in LifeB0 :
        LET m == [c \in Cells |-> KindMask(KindOfLife(ks, c))]
            b == initializeScalarLattice(m, [iM \in Species |-> b1])
        IN  /\ bFilm = b
            /\ bio0 = b
            /\ mask = m
            /\ total = [c \in Cells |-> CellTotal(b[c])]
            /\ age = createAgeDomain(m)
            /\ dist = calculateDistanceFromSolid(m)
            /\ pre = [bio |-> b, cAmt |-> ZeroField, cDir |-> DirField]
            /\ old_totMask = TotMask(m)
    /\ decomp = "single"
    /\ halfflag = FALSE
    /\ cAmt = ZeroField
    /\ cDir = DirField
    /\ env = ZeroField
    /\ pc = "init"
    /\ err = "none"
    /\ cur = 0
    /\ whilecount = 0
    /\ whilecount1 = 0
    /\ globalBmax = Zero
    /\ sum0 = [iM \in Species |-> Zero]
    /\ xf = {}
    /\ lastSrc = << >>
    /\ nCredit = DirField
    /\ stageSweep = [c \in Cells |-> 0]
    /\ ref = bFilm
    /\ iT = 0
    /\ everFull = FullCells(bFilm, total)

\* "Initial mask update": the pass over the whole bounding box, then
\* old_totMask follows the grid-wide sum of the mask.
InitialMask ==
    /\ pc = "init"
    /\ LET S == UpdateLocalMask(mask, total, bFilm, Blocks)
       IN  /\ mask' = S.mask
           /\ total' = S.total
           /\ IF S.fatal THEN pc' = "fatal" /\ err' = "maskFail"
              ELSE pc' = "load" /\ err' = err
           /\ old_totMask' = IF TotMask(S.mask) # old_totMask THEN TotMask(S.mask)
                             ELSE old_totMask
    /\ UNCHANGED <<bFilm, cAmt, cDir, age, dist, env, decomp, halfflag, cur,
                   whilecount, whilecount1, globalBmax, hist, iT>>
    /\ Track

\* "Load checkpoints if needed": without a checkpoint the lattices stay;
\* with one, loadBinaryBlock replaces the biomass lattices and nothing
\* else (iT counts from the restart).
LoadCheckpoint ==
    /\ pc = "load"
    /\ \/ bFilm' = bFilm
       \/ \E ld \in [{LifeIn, LifeA, LifeB} -> LifeLoads] :
            bFilm' = [c \in Cells |-> IF c \in DOMAIN ld THEN ld[c] ELSE bFilm[c]]
    /\ bio0' = bFilm'
    /\ ref' = bFilm'
    /\ pc' = "grow"
    /\ UNCHANGED <<mask, cAmt, cDir, total, age, dist, env, decomp, halfflag, err,
                   cur, whilecount, whilecount1, globalBmax, sum0, pre, xf, lastSrc,
                   nCredit, stageSweep, outer>>
    /\ Track

\* update_rxnLattices: the increment dB of species 1 is added in one
\* inner cell that is neither solid nor wall, if it is beyond thrd.
Kinetics ==
    /\ pc = "grow"
    /\ iT < MaxIter
    /\ \E c \in {LifeA, LifeB} :
         \E dB \in {Zero, LifeGrowth, LifeDecay(bFilm[c][1])} :
            bFilm' = IF /\ c[1] > 0 /\ c[1] < nx - 1
                        /\ mask[c] # solid /\ mask[c] # bb
                        /\ (RGt(dB, thrd) \/ RLt(dB, RSub(Zero, thrd)))
                     THEN [bFilm EXCEPT ![c][1] = RAdd(@, dB)]
                     ELSE bFilm
    /\ bio0' = bFilm'
    /\ ref' = bFilm'
    /\ pc' = "start"
    /\ UNCHANGED <<mask, cAmt, cDir, total, age, dist, env, decomp, halfflag, err,
                   cur, whilecount, whilecount1, globalBmax, sum0, pre, xf, lastSrc,
                   nCredit, stageSweep, outer>>
    /\ Track

NextLife ==
    \/ InitialMask \/ LoadCheckpoint \/ Kinetics \/ StepStart \/ ResetCopyStep
    \/ PushCell \/ Pull \/ Update \/ AgePassStep \/ Bound \/ UpdateFlow

SpecLife == InitLife /\ [][NextLife]_vars

(* ------------------------------------------------------------------ *)
(* Properties                                                          *)
(* ------------------------------------------------------------------ *)
RMin(a, b) == IF RLt(a, b) THEN a ELSE b

\* Masks of the in-bounds face neighbours of c.
NbrMaskSet(c) == {mask[Add(c, PushDirs(c)[i])] : i \in 1..Len(PushDirs(c))}

PoreMasks == {pore[i] : i \in 1..Len(pore)}

\* A cell has just been processed by the push pass.
JustPushed == pc = "push" /\ lastSrc # << >>

NoNeighborExit == pc = "fatal" /\ err = "noNeighbor"

\* C1: one complete sweep (reset, push on all blocks, pull on all
\* blocks) leaves the sum of each species over the cells that are neither
\* solid nor wall unchanged.
C1_MassConserved ==
    pc = "update" => \A iM \in Species : SumBio(bFilm, mask, iM) = sum0[iM]

\* C2: when the push-pull loop is left without a fatal exit, the total
\* of every cell is at most Bmax plus the tolerance.
C2_CapacityAtExit ==
    pc = "done" => \A c \in Cells : RLe(total[c], RAdd(Bmax, thrd))

C2_Witness == pc = "done" /\ whilecount >= 1

\* C3: no push and no pull credits a solid or wall cell: the biomass of
\* every solid or wall cell keeps its initial value and no transfer has
\* such a cell as its recipient.
C3_SolidWallUntouched ==
    /\ \A c \in Cells : (mask[c] = solid \/ mask[c] = bb) => bFilm[c] = bio0[c]
    /\ \A x \in xf : x.dstMask # solid /\ x.dstMask # bb

C3_Witness ==
    /\ pc = "update" /\ lastSrc # << >> /\ xf # {}
    /\ {solid, bb} \subseteq NbrMaskSet(lastSrc[1])
    /\ \E c \in Cells, iM \in Species : nCredit[c][iM] = 1

C5_NoWorkWithinCapacity ==
    (\A c \in Cells : RLe(CellTotal(bio0[c]), RAdd(Bmax, thrd))) =>
        /\ pc \notin {"reset", "push", "update", "age", "bound"}
        /\ whilecount = 0
        /\ bFilm = bio0
        /\ cAmt = ZeroField /\ cDir = DirField

C5_Witness ==
    /\ pc = "done" /\ whilecount = 0
    /\ \E c \in Cells : RGt(CellTotal(bio0[c]), Bmax)

\* C6: with the grid cut in two blocks normal to x, a sweep gives the
\* same biomass field as the sweep on one block with the same neighbour
\* choices.
C6_PartitionEquivalence ==
    (pc = "update" /\ decomp = "splitX") => bFilm = ref

\* C7: during the push pass a block writes biomass only inside itself:
\* every transfer to a recipient outside the block is stored in the copy
\* lattice and nothing is written to the envelope.
C7_OwnBlockOnly ==
    /\ env = ZeroField
    /\ \A x \in xf : ~x.own => x.push_dir > 0

\* C8: the pull credits a stored transfer to at most one cell and at most
\* once, and only a transfer stored in the current sweep.
C8_CreditedOnce ==
    pc = "update" =>
        \A s \in Cells, iM \in Species :
            /\ nCredit[s][iM] <= 1
            /\ nCredit[s][iM] = 1 => stageSweep[s] = whilecount + 1

C8_Witness ==
    /\ pc = "update" /\ whilecount >= 1
    /\ \E s \in Cells, iM \in Species : nCredit[s][iM] = 1

\* C9: a processed source cell all of whose in-bounds face neighbours are
\* solid or wall ends the run with the no-neighbour error, and nothing
\* has been written for that cell.
C9_NoNeighborFatal ==
    (/\ lastSrc # << >>
     /\ pc = "push" \/ NoNeighborExit
     /\ NbrMaskSet(lastSrc[1]) \subseteq {solid, bb}) =>
        /\ NoNeighborExit
        /\ bFilm = pre.bio /\ cAmt = pre.cAmt /\ cDir = pre.cDir
        /\ xf = {}

C9_Witness ==
    /\ NoNeighborExit /\ halfflag
    /\ bb \in NbrMaskSet(lastSrc[1])

SkippedSpecies == {iM \in Species : \E x \in xf : x.moved[iM] # x.share[iM]}

\* The last processed cell kept the same fraction of species i and j
\* (a species it did not hold before is not held after).
SameRatio(i, j) ==
    LET was == pre.bio[lastSrc[1]]
        is == bFilm[lastSrc[1]]
    IN  IF was[i] = Zero \/ was[j] = Zero
        THEN (was[i] = Zero => is[i] = Zero) /\ (was[j] = Zero => is[j] = Zero)
        ELSE RDiv(is[i], was[i]) = RDiv(is[j], was[j])

\* C13 as stated: every transfer takes a proportional amount from each
\* species, so the ratio between any two species in the source cell is
\* the same after the cell was processed as before.
C13_RatioPreserved ==
    JustPushed =>
        \A i, j \in Species : SameRatio(i, j)

\* C13 amended: a species is left in the source only by a primary
\* transfer in which its proportional amount is at most thrd; between
\* any two species that no transfer left behind the ratio in the source
\* cell is the same after the cell was processed as before.
C13_ProportionalAboveTol ==
    JustPushed =>
        /\ \A x \in xf : \A iM \in Species :
              x.moved[iM] # x.share[iM] =>
                  /\ x.kind = "primary"
                  /\ RLe(x.share[iM], thrd)
                  /\ x.moved[iM] = Zero
        /\ \A i, j \in Species \ SkippedSpecies : SameRatio(i, j)

C13_Witness ==
    /\ JustPushed
    /\ \E x, y \in xf :
          /\ x.kind = "primary" /\ y.kind = "fallback"
          /\ \A iM \in Species : RGt(x.moved[iM], Zero) /\ RGt(y.moved[iM], Zero)

\* The cells whose biomass at the start of the step exceeds Bmax.
OverCells == {c \in Cells : RGt(CellTotal(bio0[c]), Bmax)}

\* Scenario A: one worker, full push, first sweep; exactly one cell c is
\* over capacity and every candidate neighbour has room for its excess.
ScenarioA(c) ==
    /\ decomp = "single" /\ ~halfflag /\ whilecount = 0
    /\ OverCells = {c}
    /\ \A i \in 1..Len(NbrsLocMask(Lat, c)) :
          RGe(RSub(Bmax, CellTotal(bio0[Add(c, NbrsLocMask(Lat, c)[i].d)])),
              RSub(CellTotal(bio0[c]), Bmax))

\* The source holds Bmax, one face neighbour gained the excess and no
\* other cell changed.
ScenarioAResult(c) ==
    /\ CellTotal(bFilm[c]) = Bmax
    /\ \E i \in 1..Len(PushDirs(c)) :
          LET n == Add(c, PushDirs(c)[i])
          IN  /\ CellTotal(bFilm[n]) =
                    RAdd(CellTotal(bio0[n]), RSub(CellTotal(bio0[c]), Bmax))
              /\ \A o \in Cells \ {c, n} : bFilm[o] = bio0[o]

\* C14 as stated: in scenario A the push pass leaves the source at
\* exactly Bmax, one face neighbour with exactly the excess more, and
\* every other cell unchanged.
C14_SingleTransfer ==
    \A c \in Cells : (pc = "update" /\ ScenarioA(c)) => ScenarioAResult(c)

\* Every species of c has a proportional part of the excess that is
\* zero or above thrd.
NoTraceSpecies(c) ==
    \A iM \in Species :
        \/ bio0[c][iM] = Zero
        \/ RGt(RMul(RDiv(bio0[c][iM], CellTotal(bio0[c])),
                    RSub(CellTotal(bio0[c]), Bmax)), thrd)

\* C14 amended: the same, for a source none of whose species has a
\* proportional part of the excess at or below thrd.
C14_SingleTransferAboveTol ==
    \A c \in Cells :
        (pc = "update" /\ ScenarioA(c) /\ NoTraceSpecies(c)) => ScenarioAResult(c)

C14_Witness ==
    \E c \in Cells :
        /\ pc = "update" /\ ScenarioA(c) /\ NoTraceSpecies(c)
        /\ Len(NbrsLocMask(Lat, c)) >= 2
        /\ \A iM \in Species : RGt(bio0[c][iM], Zero)

\* C17, for the transfers that move every species' part: under the full
\* push the total moved by a primary transfer is the lesser of the
\* source's actual excess and the candidate's actual headroom at the
\* moment of the transfer.
C17_PrimaryAmountFromActual ==
    ~halfflag =>
        \A x \in xf :
            (x.kind = "primary" /\ x.moved = x.share) =>
                CellTotal(x.moved) = RMin(RSub(CellTotal(x.srcBefore), Bmax),
                                          RSub(Bmax, CellTotal(x.dstBefore)))

\* C18: after a primary transfer that credits its recipient directly the
\* recipient's actual total is at most Bmax (the recipient is not also
\* the fallback recipient of the same cell).
C18_PrimaryRespectsCapacity ==
    JustPushed =>
        \A x \in xf :
            ( /\ x.kind = "primary" /\ x.own /\ x.push_dir = 0
              /\ ~\E y \in xf : y.kind = "fallback" /\ y.dst = x.dst )
            => RLe(CellTotal(bFilm[x.dst]), Bmax)

\* What the transfer of the given kind staged for species iM.
StagedBy(kind, iM) ==
    IF \E x \in xf : x.kind = kind /\ x.push_dir > 0
    THEN (CHOOSE x \in xf : x.kind = kind /\ x.push_dir > 0).moved[iM]
    ELSE Zero

\* C19: after a cell was processed its copy-lattice entry holds, for
\* each species, all that the cell's staged transfers debited from it.
C19_OutboxHoldsAllDebits ==
    JustPushed =>
        \A iM \in Species :
            cAmt[lastSrc[1]][iM] = RAdd(StagedBy("primary", iM), StagedBy("fallback", iM))

\* The candidate cells of the last processed cell.
Candidates == {Add(lastSrc[1], NbrsLocMask(Lat, lastSrc[1])[i].d) :
                  i \in 1..Len(NbrsLocMask(Lat, lastSrc[1]))}

Preferred == {n \in Candidates :
                 IF halfflag THEN age[n] <= age[lastSrc[1]]
                 ELSE age[n] < age[lastSrc[1]]}

C11_AtMostSweepCap == pc = "push" => whilecount + 1 <= SweepCap

(* ------------------------------------------------------------------ *)
\* One turn of the age loop seen from outside: whilecount1 counts the
\* passes of the refresh; the loop goes on exactly when the pass
\* changed the grid-wide sum of age and fewer than AgeCap + 1 passes
\* were made, stops normally exactly when a pass among the first AgeCap
\* left the sum unchanged, and exits fatally exactly when the first
\* AgeCap passes all changed it.
AgeLoopTurn ==
    pc = "age" =>
        LET diff == TotAge(age', 1, Len(AllCells)) - TotAge(age, 1, Len(AllCells))
        IN  /\ whilecount1' = whilecount1 + 1
            /\ whilecount1 <= AgeCap
            /\ pc' = "fatal" <=> whilecount1 = AgeCap
            /\ pc' = "fatal" => err' = "ageLoop"
            /\ pc' = "bound" <=> (diff = 0 /\ whilecount1 < AgeCap)
            /\ pc' = "age" <=> (diff # 0 /\ whilecount1 < AgeCap)

\* C12: every Front-Age refresh terminates: it repeats the whole-grid
\* pass until a pass leaves the sum of age unchanged and then goes on
\* normally; it ends in the fatal exit exactly when none of the first
\* AgeCap (1000) passes left the sum unchanged.  Every turn raises the
\* pass counter, which never passes AgeCap + 1, so the refresh ends.
C12_AgeRefreshTerminates == [][AgeLoopTurn]_vars

\* A refresh has made AgeCap passes that all changed the sum and ended
\* in the fatal exit.
C12_Witness == pc = "fatal" /\ err = "ageLoop" /\ whilecount1 = AgeCap + 1
(* ------------------------------------------------------------------ *)
\* The cell just processed by the full push had only candidates whose
\* per-species sums were at or above Bmax.
ScenarioB ==
    /\ JustPushed
    /\ ~halfflag
    /\ Candidates # {}
    /\ \A n \in Candidates : RGe(CellTotal(pre.bio[n]), Bmax)

\* C15: full push, every candidate neighbour at or above Bmax: the
\* primary pass transfers nothing, the fallback moves the cell's whole
\* excess to one neighbour and the source is left at exactly Bmax.
C15_FallbackMovesWholeExcess ==
    ScenarioB =>
        /\ ~\E x \in xf : x.kind = "primary"
        /\ \E x \in xf : /\ x.kind = "fallback"
                         /\ CellTotal(x.moved) =
                                RSub(CellTotal(pre.bio[lastSrc[1]]), Bmax)
        /\ CellTotal(bFilm[lastSrc[1]]) = Bmax
BlockOf(c) == Blocks[CHOOSE k \in 1..Len(Blocks) : InBlock(c, Blocks[k])]

\* The recipients of the primary transfers of one processed cell.
PrimaryDsts(res) == {x.dst : x \in {y \in res.xf : y.kind = "primary"}}

\* Both policies take c as a source cell or neither does.
SameSources(c) == IsSourceFull(Lat, c) <=> IsSourceHalf(Lat, c)

\* With the same shuffle and the same rand() value, when both policies
\* reach the fallback for c they pick the same recipient.
SameFallback(c) ==
    \A randArray \in Shuffles(Len(NbrsLocMask(Lat, c))),
       r \in RandVals(Len(NbrsLocMask(Lat, c))) :
        LET f == ProcessCell(Lat, c, BlockOf(c), randArray, r, FALSE)
            h == ProcessCell(Lat, c, BlockOf(c), randArray, r, TRUE)
        IN  \A x \in f.xf, y \in h.xf :
                (x.kind = "fallback" /\ y.kind = "fallback") => x.dst = y.dst

\* With the same shuffle both policies accept primary candidates along
\* the same order (the one that attempts less stops earlier) and stage
\* a transfer to the same recipient in the same direction.
SamePrimaryAndStaging(c) ==
    \A randArray \in Shuffles(Len(NbrsLocMask(Lat, c))),
       r \in RandVals(Len(NbrsLocMask(Lat, c))) :
        LET f == ProcessCell(Lat, c, BlockOf(c), randArray, r, FALSE)
            h == ProcessCell(Lat, c, BlockOf(c), randArray, r, TRUE)
        IN  /\ PrimaryDsts(f) \subseteq PrimaryDsts(h)
               \/ PrimaryDsts(h) \subseteq PrimaryDsts(f)
            /\ \A x \in f.xf, y \in h.xf : x.dst = y.dst => x.push_dir = y.push_dir

\* C21: on the same lattices and with the same random choices the full
\* push and the half push take the same cells as sources, accept primary
\* candidates by the same test, pick the same fallback recipient and
\* stage in the same directions; only the amount attempted differs.
C21_PoliciesAgree ==
    pc = "push" =>
        \A c \in Cells :
            /\ SameSources(c)
            /\ (IsSourceFull(Lat, c) /\ IsSourceHalf(Lat, c)
                  /\ Len(NbrsLocMask(Lat, c)) > 0) =>
                    SameFallback(c) /\ SamePrimaryAndStaging(c)
(* ------------------------------------------------------------------ *)
\* Half of what the last processed cell held before it was processed.
HalfHeld == RMul(CellTotal(pre.bio[lastSrc[1]]), <<1, 2>>)

\* C22 as stated: a cell processed by the half push sheds half of the
\* biomass it held and keeps exactly the other half.
C22_HalfShed ==
    (JustPushed /\ halfflag) => CellTotal(bFilm[lastSrc[1]]) = HalfHeld

\* C22 amended: the cell keeps exactly half when every species' part
\* of every primary transfer is above thrd; a species' part at or below
\* thrd is left in the cell, which then keeps more than half.
C22_HalfShedAboveTol ==
    (JustPushed /\ halfflag) =>
        IF SkippedSpecies = {} THEN CellTotal(bFilm[lastSrc[1]]) = HalfHeld
        ELSE RGt(CellTotal(bFilm[lastSrc[1]]), HalfHeld)

\* A cell whose excess over Bmax is the tolerance itself has shed half
\* of its biomass.
C22_Witness ==
    /\ JustPushed /\ halfflag
    /\ CellTotal(pre.bio[lastSrc[1]]) = RAdd(Bmax, thrd)
    /\ CellTotal(bFilm[lastSrc[1]]) = HalfHeld
(* ------------------------------------------------------------------ *)
SweepAbort == pc = "fatal" /\ err = "sweepBound"

\* C23: the sweep-bound exit is taken only when, after the sweep in
\* which the bound was reached, some cell's total is still above Bmax
\* plus the tolerance.
C23_AbortOnlyOverCapacity ==
    SweepAbort => \E c \in Cells : RGt(total[c], RAdd(Bmax, thrd))
(* ------------------------------------------------------------------ *)
\* The configured biofilm type ids.
BioIds == {bio[iM][1] : iM \in Species}

\* The species held by c above COMPLAB_THRD.
PresentSpecies(c) == {iM \in Species : RGt(bFilm[c][iM], COMPLAB_THRD)}

\* Types of the face neighbours of c that are biofilm types, before or
\* after the pass.
NbrBioTypes(c) ==
    {mask[Add(c, GridDirs(c)[i])] : i \in 1..Len(GridDirs(c))} \cap BioIds

\* A pass of updateLocalMaskNtotalLattices3D turns the pore cell c into
\* a cell that is not a pore.
PoreReclassified(c) == IsPore(mask[c]) /\ ~IsPore(mask'[c])

PoreToBiofilmStep ==
    \A c \in Cells :
        PoreReclassified(c) =>
            /\ mask'[c] \in BioIds
            /\ IF Cardinality(PresentSpecies(c)) = 1
               THEN mask'[c] = bio[Only(PresentSpecies(c))][1]
               ELSE IF NbrBioTypes(c) # {} THEN mask'[c] \in NbrBioTypes(c)
               ELSE mask'[c] = bio[1][1]

\* C24: a pore cell whose biomass has reached thrdbMassRho is given a
\* configured biofilm type id: the type of its one species, or with
\* several species the type of a biofilm neighbour, else the first
\* biofilm type.
C24_PoreToBiofilmType == [][PoreToBiofilmStep]_vars
(* ------------------------------------------------------------------ *)
\* C30: every per-species biomass value of every cell is non-negative
\* in every reachable state, under both policies and also for a source
\* whose stored total is stale.
C30_BiomassNonNegative ==
    \A c \in Cells : \A iM \in Species : RGe(bFilm[c][iM], Zero)

\* A source that had received biomass earlier in the same sweep (its
\* stored total is below what it holds) has made a primary transfer
\* and still holds a part of every species it held.
C30_Witness ==
    /\ JustPushed
    /\ RGt(CellTotal(pre.bio[lastSrc[1]]), total[lastSrc[1]])
    /\ \E x \in xf : x.kind = "primary" /\ x.moved # [iM \in Species |-> Zero]
    /\ \A iM \in Species : pre.bio[lastSrc[1]][iM] # Zero => RGt(bFilm[lastSrc[1]][iM], Zero)
(* ------------------------------------------------------------------ *)
(* C28: promotion of an age-1 cell in a Front-Age pass                 *)
(* ------------------------------------------------------------------ *)
\* The face neighbours of c that are closer than c and have age 0 in
\* the age lattice ageL.
Blockers(ageL, c) ==
    {i \in 1..Len(GridDirs(c)) :
        /\ dist[Add(c, GridDirs(c)[i])] < dist[c]
        /\ ageL[Add(c, GridDirs(c)[i])] = 0}

\* The cells an age pass looks at that have age 1.
AgeOneCells == {c \in Cells : age[c] = 1 /\ RGt(total[c], COMPLAB_THRD)}

\* C28: in a Front-Age pass a cell with age 1 is promoted to age 2
\* exactly when none of its face neighbours has both a distance
\* strictly smaller than the cell's own and age 0.  The neighbours'
\* ages are taken before and after the pass: the cell is promoted when
\* no neighbour blocks in either, and stays at 1 when one blocks in both.
C28_PromotionStep ==
    pc = "age" =>
        \A c \in AgeOneCells :
            /\ (Blockers(age, c) = {} /\ Blockers(age', c) = {}) => age'[c] = 2
            /\ (Blockers(age, c) # {} /\ Blockers(age', c) # {}) => age'[c] = 1

C28_Promotion == [][C28_PromotionStep]_vars

(* ------------------------------------------------------------------ *)
(* C27: age of the cells that were never at capacity                   *)
(* ------------------------------------------------------------------ *)
\* C27: a cell whose total has never been at or above Bmax has age 0:
\* neither initialization nor a Front-Age pass gives a non-zero age to
\* a cell that holds only sub-capacity biomass.  (Solid and wall cells
\* carry the marker -1 and are left out.)
C27_AgeZeroUnlessFull ==
    \A c \in Cells :
        (mask[c] # solid /\ mask[c] # bb /\ c \notin everFull) => age[c] = 0

(* ------------------------------------------------------------------ *)
(* C25, C26: what a mask pass leaves behind                            *)
(* ------------------------------------------------------------------ *)
\* A step that is one updateLocalMaskNtotalLattices3D pass and does not
\* take the fatal exit.
MaskPassStep == pc \in {"init", "start", "update"} /\ pc' # "fatal"

\* The biomass a pass counts in a cell: the species above COMPLAB_THRD.
CountedTotal(b) == SumOver(b, [iM \in Species |-> RGt(b[iM], COMPLAB_THRD)], 1)

FluidCells(maskL) == {c \in Cells : maskL[c] # solid /\ maskL[c] # bb}

\* C25 as stated: after every pass that does not abort, each non-solid,
\* non-wall cell is of a pore type if and only if the sum of its
\* per-species biomass is below threshold_fraction x Bmax.
C25_ClassifiedBySumStep ==
    MaskPassStep =>
        \A c \in FluidCells(mask') :
            IsPore(mask'[c]) <=> RLt(CellTotal(bFilm'[c]), thrdbMassRho)

C25_ClassifiedBySum == [][C25_ClassifiedBySumStep]_vars

\* C25 amended: after every pass that does not abort, each non-solid,
\* non-wall cell is of a pore type if and only if the sum of those of
\* its per-species amounts that exceed the tolerance COMPLAB_THRD is
\* below threshold_fraction x Bmax.
C25_ClassifiedByCountedStep ==
    MaskPassStep =>
        \A c \in FluidCells(mask') :
            IsPore(mask'[c]) <=> RLt(CountedTotal(bFilm'[c]), thrdbMassRho)

C25_ClassifiedByCounted == [][C25_ClassifiedByCountedStep]_vars

\* The first pass of the first iteration has run.  A cell that was of a
\* biofilm type in the geometry (age 1) and kept it in the initial pass
\* (b0 at the threshold or above) is now a pore cell although its
\* biomass sums up to the threshold, one share being at the tolerance;
\* a cell that was a pore cell in the geometry (age 0) is now a biofilm
\* cell.
C25_Witness ==
    /\ pc \in {"reset", "done"}
    /\ iT = 0
    /\ whilecount = 0
    /\ lastSrc = << >>
    /\ \E c \in Cells :
          /\ IsPore(mask[c]) /\ age[c] = 1
          /\ RGe(CellTotal(pre.bio[c]), thrdbMassRho)
          /\ RGe(CellTotal(bFilm[c]), thrdbMassRho)
          /\ RLt(CountedTotal(bFilm[c]), thrdbMassRho)
    /\ \E c \in FluidCells(mask) :
          /\ ~IsPore(mask[c]) /\ age[c] = 0
          /\ RGe(CountedTotal(bFilm[c]), thrdbMassRho)

\* C26: a pass changes the total and the state only of interior cells:
\* a non-solid, non-wall cell on the first or the last x-plane is never
\* modified by it, whatever its biomass.
C26_BoundaryUntouchedStep ==
    pc \in {"init", "start", "update"} =>
        \A c \in FluidCells(mask) :
            (c[1] = 0 \/ c[1] = nx - 1) =>
                mask'[c] = mask[c] /\ total'[c] = total[c]

C26_BoundaryUntouched == [][C26_BoundaryUntouchedStep]_vars

(* ------------------------------------------------------------------ *)
(* C29: the age of a cell over the whole run                           *)
(* ------------------------------------------------------------------ *)
\* C29: over any sequence of Front-Age passes, sweeps and
\* reclassifications a cell's age never decreases and is never reset to
\* 0, also when the cell's biomass falls and the cell is reclassified
\* from biofilm back to pore.
C29_AgeStep ==
    \A c \in Cells : age'[c] >= age[c] /\ (age[c] # 0 => age'[c] # 0)

C29_AgeNeverDecreases == [][C29_AgeStep]_vars

\* The biofilm cell LifeA (age 1 from the geometry) held b0 = 3/2, lost
\* three quarters of it to decay, was reclassified to pore by the pass
\* of the CA step, and the flow update, with its age pass, has run: the
\* cell still has age 1.
C29_Witness ==
    /\ pc = "grow"
    /\ iT = 1
    /\ lastSrc = << >>
    /\ pre.bio[LifeA][1] = <<3, 2>>
    /\ IsPore(mask[LifeA])
    /\ bFilm[LifeA][1] = <<3, 8>>
    /\ age[LifeA] = 1
    /\ old_totMask = TotMask(mask)

====
